---- MODULE Spec2Model ----
(***************************************************************************)
(* A model of scripts/h5_conversion.py: the HDF5Converter class (name      *)
(* normalisation, group conversion, the four container conversions,        *)
(* write_artifacts) and the module function save_model.                    *)
(*                                                                         *)
(* The code targets Python 2 (it calls .decode on values that are already  *)
(* text), so decode follows the Python 2 rules: a byte string is decoded   *)
(* as UTF-8, a unicode string is first encoded with the ascii codec.       *)
(***************************************************************************)
EXTENDS Integers, Sequences, FiniteSets, TLC

(***************************************************************************)
(* Bounds of the model.                                                    *)
(***************************************************************************)
MaxNameLen == 5
MaxVerLen == 3
MaxLayers == 2
MaxDecimalPlaces == 1
MaxTensors == 2
MaxShardBytes == 5
MaxEpochs == 2
MaxRunTime == 1

\* The default of HDF5Converter.__init__'s decimal_places.
DefaultDecimalPlaces == 6

VARIABLES
  h5file,      \* the source container: keras_version and the layers, in declaration order
  converter,   \* the HDF5Converter object: its decimal_places, or NoConverter
  pc,          \* position of the running call
  op,          \* the operation called, its arguments, and what the output path was at the call
  ret,         \* what the call returned or raised
  reads,       \* names of the layers whose datasets the call has read, in order
  fs,          \* the output path: its kind and the files of the directory
  tmp,         \* TRUE while the temporary .h5 file of save_model exists
  bench        \* the clock and the local variables of benchmark_and_serialize_model

vars == <<h5file, converter, pc, op, ret, reads, fs, tmp, bench>>

(***************************************************************************)
(* Names.  A name is a byte string (what h5py hands out for the            *)
(* weight_names attribute) or a text (unicode) string; s holds the byte    *)
(* values, respectively the code points.                                   *)
(***************************************************************************)
Bytes(s) == [t |-> "bytes", s |-> s]
Text(s) == [t |-> "text", s |-> s]
NoName == [t |-> "none", s |-> <<>>]

\* ':' and '0'
Colon == 58
Zero == 48

\* UTF-8, restricted to one- and two-byte sequences (code points below 2048).
RECURSIVE Utf8Valid(_)
Utf8Valid(b) ==
  IF b = <<>> THEN TRUE
  ELSE IF Head(b) < 128 THEN Utf8Valid(Tail(b))
  ELSE /\ Head(b) >= 194
       /\ Head(b) <= 223
       /\ Len(b) >= 2
       /\ b[2] >= 128
       /\ b[2] <= 191
       /\ Utf8Valid(Tail(Tail(b)))

RECURSIVE Utf8Decode(_)
Utf8Decode(b) ==
  IF b = <<>> THEN <<>>
  ELSE IF Head(b) < 128 THEN <<Head(b)>> \o Utf8Decode(Tail(b))
  ELSE <<(Head(b) - 192) * 64 + (b[2] - 128)>> \o Utf8Decode(Tail(Tail(b)))

RECURSIVE Utf8Encode(_)
Utf8Encode(c) ==
  IF c = <<>> THEN <<>>
  ELSE IF Head(c) < 128 THEN <<Head(c)>> \o Utf8Encode(Tail(c))
  ELSE <<192 + (Head(c) \div 64), 128 + (Head(c) % 64)>> \o Utf8Encode(Tail(c))

IsAscii(s) == \A i \in 1..Len(s) : s[i] < 128

\* x.decode('utf8') of Python 2: [exc, name].
Decode(x) ==
  IF x.t = "bytes"
  THEN IF Utf8Valid(x.s)
       THEN [exc |-> "none", name |-> Text(Utf8Decode(x.s))]
       ELSE [exc |-> "UnicodeDecodeError", name |-> NoName]
  ELSE IF IsAscii(x.s)
       THEN [exc |-> "none", name |-> Text(x.s)]
       ELSE [exc |-> "UnicodeEncodeError", name |-> NoName]

\* name.endswith(':0')
EndsWithSlot(s) ==
  /\ Len(s) >= 2
  /\ s[Len(s) - 1] = Colon
  /\ s[Len(s)] = Zero

\* name[:-2]
StripSlot(s) == SubSeq(s, 1, Len(s) - 2)

\* The same method with the suffix test dropped: every name loses its last two characters.
NormalizeAlwaysStrip(weight_name) ==
  LET d == Decode(weight_name)
  IN  IF d.exc # "none" THEN d
      ELSE [exc |-> "none", name |-> Text(StripSlot(d.name.s))]

\* HDF5Converter._normalize_weight_name: [exc, name].
_normalize_weight_name(weight_name) ==
  LET d == Decode(weight_name)
  IN  IF d.exc # "none" THEN d
      ELSE IF EndsWithSlot(d.name.s)
           THEN [exc |-> "none", name |-> Text(StripSlot(d.name.s))]
           ELSE d

(***************************************************************************)
(* The source container (an HDF5 file written by Keras).  A layer is a     *)
(* group: its name and its weight_names attribute (byte strings, in the    *)
(* layer's declaration order); every weight name is the key of one dataset *)
(* of the group.  Layer names are ascii.                                   *)
(***************************************************************************)
\* 'k:0', 'b', and 'e-acute:0' (UTF-8: C3 A9), as h5py returns them.
KernelName == <<107, 58, 48>>
BiasName == <<98>>
AccentName == <<195, 169, 58, 48>>

WeightNameLists ==
  { <<>>, <<KernelName>>, <<KernelName, BiasName>>, <<BiasName, KernelName>>,
    <<AccentName>>, <<KernelName, AccentName>> }

\* Layer names: 'b', 'a', 'ab'.
LayerNames == { <<98>>, <<97>>, <<97, 98>> }

Layers == [name : LayerNames, weight_names : WeightNameLists]

DistinctNames(ls) == \A i, j \in 1..Len(ls) : ls[i].name = ls[j].name => i = j

LayerLists ==
  UNION { { ls \in [1..n -> Layers] : DistinctNames(ls) } : n \in 0..MaxLayers }

\* Characters of a version string.
VersionChars == {"2", "1", "."}

Versions == UNION { [1..n -> VersionChars] : n \in 0..MaxVerLen }

\* '2.1' and '1.2'
SampleVersions == { <<"2", ".", "1">>, <<"1", ".", "2">> }

\* The byte strings of at most MaxNameLen bytes over 'k', ':', '0', C3, A9.
RawNames == UNION { [1..n -> {107, 58, 48, 195, 169}] : n \in 0..MaxNameLen }

\* The group h5file['optimizer_weights']: absent, or the optimizers in the
\* order of the group's names, each with its items in the order of their keys.
NoOptimizer == [present |-> FALSE, optimizers |-> <<>>]
OptimizerItem(key, kind, names) == [key |-> key, kind |-> kind, names |-> names]
OptimizerSamples ==
  { [present |-> TRUE, optimizers |-> <<>>],
    [present |-> TRUE,
     optimizers |-> <<[name |-> <<116>>,
                       items |-> <<OptimizerItem(<<65>>, "Group", <<KernelName, BiasName>>)>>]>>],
    [present |-> TRUE,
     optimizers |-> <<[name |-> <<116>>,
                       items |-> <<OptimizerItem(<<65>>, "Group", <<KernelName>>),
                                   OptimizerItem(KernelName, "Dataset", <<>>),
                                   OptimizerItem(<<122>>, "Datatype", <<>>)>>],
                      [name |-> <<117>>,
                       items |-> <<OptimizerItem(<<122>>, "Datatype", <<>>)>>]>>],
    [present |-> TRUE,
     optimizers |-> <<[name |-> <<116>>,
                       items |-> <<OptimizerItem(<<65>>, "Dataset", <<>>),
                                   OptimizerItem(<<103>>, "Group", <<KernelName, BiasName>>)>>],
                      [name |-> <<117>>,
                       items |-> <<OptimizerItem(<<65>>, "Dataset", <<>>),
                                   OptimizerItem(<<103>>, "Group", <<>>)>>]>>] }

\* Two layers declared out of name order, the first without weights.
SampleLayerLists ==
  { <<>>,
    <<[name |-> <<98>>, weight_names |-> <<KernelName, BiasName>>]>>,
    <<[name |-> <<98>>, weight_names |-> <<>>],
      [name |-> <<97>>, weight_names |-> <<KernelName>>]>> }

Container(v, ls, tc, ow) ==
  [keras_version |-> v, layers |-> ls, training_config |-> tc, optimizer_weights |-> ow]

\* The containers of the model: every layer list without optimizer weights,
\* and the sample layer lists with them.
Containers ==
  { Container(v, ls, FALSE, NoOptimizer) : v \in SampleVersions, ls \in LayerLists }
  \cup { Container(v, ls, TRUE, ow) :
            v \in SampleVersions, ls \in SampleLayerLists, ow \in OptimizerSamples }

\* The dataset of a group under a key: np.array(group[weight_name]).  Keras
\* stores float32 arrays; the model gives each dataset one element, whose four
\* bytes tell the datasets of the container apart.
Dataset(layer, raw) ==
  [layer |-> layer.name, key |-> raw, dtype |-> "float32", shape |-> <<1>>,
   bytes |-> <<layer.name[1], Len(layer.name), raw[1], Len(raw)>>]
NoData == [layer |-> <<>>, key |-> <<>>]

\* group[weight_name]: h5py looks a text key up by its UTF-8 encoding.
Lookup(group, weight_name) ==
  LET raw == IF weight_name.t = "text" THEN Utf8Encode(weight_name.s) ELSE weight_name.s
  IN  IF \E i \in 1..Len(group.weight_names) : group.weight_names[i] = raw
      THEN [exc |-> "none", data |-> Dataset(group, raw)]
      ELSE [exc |-> "KeyError", data |-> NoData]

\* The exception a list comprehension raises: that of its first failing element.
FirstExc(rs) ==
  IF \E i \in 1..Len(rs) : rs[i].exc # "none"
  THEN rs[CHOOSE i \in 1..Len(rs) :
            /\ rs[i].exc # "none"
            /\ \A j \in 1..(i - 1) : rs[j].exc = "none"].exc
  ELSE "none"

\* convert_h5_group, lines 61-68: the entries of a group with weights.
ConvertNames(group, names) ==
  LET decoded == [i \in 1..Len(names) |-> Decode(names[i])]
      values == [i \in 1..Len(names) |-> Lookup(group, decoded[i].name)]
      normal == [i \in 1..Len(names) |-> _normalize_weight_name(decoded[i].name)]
  IN  IF FirstExc(decoded) # "none"
      THEN [exc |-> FirstExc(decoded), isNone |-> FALSE, val |-> <<>>]
      ELSE IF FirstExc(values) # "none"
      THEN [exc |-> FirstExc(values), isNone |-> FALSE, val |-> <<>>]
      ELSE IF FirstExc(normal) # "none"
      THEN [exc |-> FirstExc(normal), isNone |-> FALSE, val |-> <<>>]
      ELSE [exc |-> "none", isNone |-> FALSE,
            val |-> [i \in 1..Len(names) |->
                       [name |-> normal[i].name, data |-> values[i].data]]]

\* The same method returning an empty list, not None, for a layer without weights.
ConvertH5GroupEmptyList(group, names) ==
  IF names = <<>> THEN [exc |-> "none", isNone |-> FALSE, val |-> <<>>]
  ELSE ConvertNames(group, names)

\* The same method pairing the names with the values in the opposite order.
ConvertH5GroupReversed(group, names) ==
  LET r == ConvertNames(group, names)
  IN  IF names = <<>> THEN [exc |-> "none", isNone |-> TRUE, val |-> <<>>]
      ELSE [r EXCEPT !.val = [i \in 1..Len(r.val) |->
                                [name |-> r.val[i].name,
                                 data |-> r.val[Len(r.val) + 1 - i].data]]]

\* HDF5Converter.convert_h5_group: [exc, isNone, val]; val is the list of
\* {'name', 'data'} entries.
convert_h5_group(group, names) ==
  IF names = <<>> THEN [exc |-> "none", isNone |-> TRUE, val |-> <<>>]
  ELSE ConvertNames(group, names)

\* HDF5Converter.convert_h5_group_to_ascii: [exc, isNone, val]; val is the list
\* of {'name', 'dtype', 'shape', 'value'} entries, the value rounded to
\* decimal_places.
convert_h5_group_to_ascii(decimal_places, group, names) ==
  IF names = <<>> THEN [exc |-> "none", isNone |-> TRUE, val |-> <<>>]
  ELSE
    LET values == [i \in 1..Len(names) |-> Lookup(group, names[i])]
        normal == [i \in 1..Len(names) |-> _normalize_weight_name(names[i])]
    IN  IF FirstExc(values) # "none"
        THEN [exc |-> FirstExc(values), isNone |-> FALSE, val |-> <<>>]
        ELSE IF FirstExc(normal) # "none"
        THEN [exc |-> FirstExc(normal), isNone |-> FALSE, val |-> <<>>]
        ELSE [exc |-> "none", isNone |-> FALSE,
              val |-> [i \in 1..Len(names) |->
                         [name |-> normal[i].name, data |-> values[i].data,
                          round |-> decimal_places]]]

\* [name for name in layer.attrs['weight_names']]
WeightNames(layer) == [i \in 1..Len(layer.weight_names) |-> Bytes(layer.weight_names[i])]

\* keras_version.split('.')[0]
RECURSIVE Major(_)
Major(v) ==
  IF v = <<>> \/ Head(v) = "." THEN <<>>
  ELSE <<Head(v)>> \o Major(Tail(v))

\* The same check comparing only the first character of the version.
CheckVersionFirstChar(file) ==
  IF file.keras_version # <<>> /\ Head(file.keras_version) = "2"
  THEN "none" ELSE "ValueError: Keras version"

\* HDF5Converter._check_version: the exception raised, or "none".
_check_version(file) ==
  IF Major(file.keras_version) # <<"2">> THEN "ValueError: Keras version" ELSE "none"

\* Byte-wise order of two names (the order of an HDF5 group's name index).
RECURSIVE NameLess(_, _)
NameLess(x, y) ==
  IF y = <<>> THEN FALSE
  ELSE IF x = <<>> THEN TRUE
  ELSE IF Head(x) # Head(y) THEN Head(x) < Head(y)
  ELSE NameLess(Tail(x), Tail(y))

\* The layers in the order iterating the group h5file['model_weights'] yields
\* them: h5py iterates a group's members by name, not by creation.
GroupIteration(layers) ==
  CHOOSE s \in [1..Len(layers) -> {layers[i] : i \in 1..Len(layers)}] :
    /\ \A i \in 1..Len(layers) : \E j \in 1..Len(layers) : s[j] = layers[i]
    /\ \A i, j \in 1..Len(layers) : i < j => NameLess(s[i].name, s[j].name)

\* The layers in the order of the attribute h5file.attrs['layer_names']: Keras
\* writes it in the model's layer declaration order.
LayerNamesAttr(layers) == layers

\* The loop over the layers shared by the two tfjs-format conversions: the
\* groups appended so far, stopping at the first exception.
RECURSIVE ConvertLayers(_, _, _)
ConvertLayers(layers, groups, read) ==
  IF layers = <<>> THEN [exc |-> "none", groups |-> groups, reads |-> read]
  ELSE
    LET layer == Head(layers)
        group == convert_h5_group(layer, WeightNames(layer))
    IN  IF group.exc # "none"
        THEN [exc |-> group.exc, groups |-> <<>>, reads |-> Append(read, layer.name)]
        ELSE ConvertLayers(Tail(layers),
                           IF group.isNone THEN groups ELSE Append(groups, group.val),
                           Append(read, layer.name))

\* _initialize_output_dictionary plus the model_config and training_config
\* entries of the merged conversions.
ModelJson(file) ==
  [keras_version |-> file.keras_version, backend |-> "tensorflow",
   model_config |-> "model_config", training_config |-> file.training_config]
NoJson == [keras_version |-> <<>>, backend |-> "", model_config |-> "",
           training_config |-> FALSE]

\* HDF5Converter.h5_merged_saved_model_to_tfjs_format: [exc, json, groups, reads].
h5_merged_saved_model_to_tfjs_format(file) ==
  IF _check_version(file) # "none"
  THEN [exc |-> _check_version(file), json |-> NoJson, groups |-> <<>>, reads |-> <<>>]
  ELSE
    LET r == ConvertLayers(GroupIteration(file.layers), <<>>, <<>>)
    IN  IF r.exc # "none"
        THEN [exc |-> r.exc, json |-> NoJson, groups |-> <<>>, reads |-> r.reads]
        ELSE [exc |-> "none", json |-> ModelJson(file), groups |-> r.groups,
              reads |-> r.reads]

\* HDF5Converter.h5_weights_to_tfjs_format: [exc, json, groups, reads].
h5_weights_to_tfjs_format(file) ==
  IF _check_version(file) # "none"
  THEN [exc |-> _check_version(file), json |-> NoJson, groups |-> <<>>, reads |-> <<>>]
  ELSE
    LET r == ConvertLayers(LayerNamesAttr(file.layers), <<>>, <<>>)
    IN  IF r.exc # "none"
        THEN [exc |-> r.exc, json |-> NoJson, groups |-> <<>>, reads |-> r.reads]
        ELSE [exc |-> "none", json |-> NoJson, groups |-> r.groups, reads |-> r.reads]

\* The same loop leaving out the layers whose conversion is None, as the
\* tfjs-format conversions do.
RECURSIVE AsciiLayersSkipNone(_, _, _, _)
AsciiLayersSkipNone(decimal_places, layers, weights, read) ==
  IF layers = <<>> THEN [exc |-> "none", weights |-> weights, reads |-> read]
  ELSE
    LET layer == Head(layers)
        group == convert_h5_group_to_ascii(decimal_places, layer, WeightNames(layer))
        key == Text(Utf8Decode(layer.name))
    IN  IF group.exc # "none"
        THEN [exc |-> group.exc, weights |-> <<>>, reads |-> Append(read, layer.name)]
        ELSE AsciiLayersSkipNone(decimal_places, Tail(layers),
                         IF group.isNone THEN weights
                         ELSE (key :> [isNone |-> FALSE, val |-> group.val]) @@ weights,
                         Append(read, layer.name))

\* The dict the JSON conversions fill, one layer at a time: layer name (text)
\* to the entry list, or None; stopping at the first exception.
RECURSIVE AsciiLayers(_, _, _, _)
AsciiLayers(decimal_places, layers, weights, read) ==
  IF layers = <<>> THEN [exc |-> "none", weights |-> weights, reads |-> read]
  ELSE
    LET layer == Head(layers)
        group == convert_h5_group_to_ascii(decimal_places, layer, WeightNames(layer))
        key == Text(Utf8Decode(layer.name))
    IN  IF group.exc # "none"
        THEN [exc |-> group.exc, weights |-> <<>>, reads |-> Append(read, layer.name)]
        ELSE AsciiLayers(decimal_places, Tail(layers),
                         (key :> [isNone |-> group.isNone, val |-> group.val]) @@ weights,
                         Append(read, layer.name))

\* The same loop appending each item's conversion to the optimizer's entry.
RECURSIVE OptimizerItemsAppend(_, _, _, _, _)
OptimizerItemsAppend(decimal_places, optimizer, items, weights, stdout) ==
  IF items = <<>> THEN [exc |-> "none", weights |-> weights, stdout |-> stdout]
  ELSE
    LET item == Head(items)
        oname == Text(Utf8Decode(optimizer.name))
        norm == _normalize_weight_name(Text(Utf8Decode(item.key)))
        sub == [name |-> item.key, weight_names |-> item.names]
        subnames == [i \in 1..Len(item.names) |-> Text(Utf8Decode(item.names[i]))]
        conv == convert_h5_group_to_ascii(decimal_places, sub, subnames)
        sofar == IF oname \in DOMAIN weights THEN weights[oname].val ELSE <<>>
    IN  IF item.kind = "Dataset"
        THEN IF norm.exc # "none"
             THEN [exc |-> norm.exc, weights |-> <<>>, stdout |-> stdout]
             ELSE OptimizerItemsAppend(decimal_places, optimizer, Tail(items),
                    (oname :> [isNone |-> FALSE,
                               val |-> sofar \o <<[name |-> norm.name,
                                                    data |-> Dataset(optimizer, item.key),
                                                    round |-> decimal_places]>>]) @@ weights,
                    stdout)
        ELSE IF item.kind = "Group"
        THEN IF conv.exc # "none"
             THEN [exc |-> conv.exc, weights |-> <<>>, stdout |-> stdout]
             ELSE OptimizerItemsAppend(decimal_places, optimizer, Tail(items),
                    (oname :> [isNone |-> FALSE, val |-> sofar \o conv.val]) @@ weights,
                    stdout)
        ELSE OptimizerItemsAppend(decimal_places, optimizer, Tail(items), weights,
                                  Append(stdout, item.key))

\* The body of the loop over one optimizer's items: the dict after the items,
\* stopping at the first exception.  An item is a Dataset, a Group, or another
\* kind of HDF5 object (a committed datatype), which is reported with print
\* (stdout holds the keys reported) and passed over.
RECURSIVE OptimizerItems(_, _, _, _, _)
OptimizerItems(decimal_places, optimizer, items, weights, stdout) ==
  IF items = <<>> THEN [exc |-> "none", weights |-> weights, stdout |-> stdout]
  ELSE
    LET item == Head(items)
        oname == Text(Utf8Decode(optimizer.name))
        norm == _normalize_weight_name(Text(Utf8Decode(item.key)))
        sub == [name |-> item.key, weight_names |-> item.names]
        subnames == [i \in 1..Len(item.names) |-> Text(Utf8Decode(item.names[i]))]
        conv == convert_h5_group_to_ascii(decimal_places, sub, subnames)
    IN  IF item.kind = "Dataset"
        THEN IF norm.exc # "none"
             THEN [exc |-> norm.exc, weights |-> <<>>, stdout |-> stdout]
             ELSE OptimizerItems(decimal_places, optimizer, Tail(items),
                    (oname :> [isNone |-> FALSE,
                               val |-> <<[name |-> norm.name,
                                          data |-> Dataset(optimizer, item.key),
                                          round |-> decimal_places]>>]) @@ weights,
                    stdout)
        ELSE IF item.kind = "Group"
        THEN IF conv.exc # "none"
             THEN [exc |-> conv.exc, weights |-> <<>>, stdout |-> stdout]
             ELSE OptimizerItems(decimal_places, optimizer, Tail(items),
                    (oname :> [isNone |-> conv.isNone, val |-> conv.val]) @@ weights,
                    stdout)
        ELSE OptimizerItems(decimal_places, optimizer, Tail(items), weights,
                            Append(stdout, item.key))

\* The loop over the optimizers of h5file['optimizer_weights'].
RECURSIVE OptimizerWeights(_, _, _, _)
OptimizerWeights(decimal_places, optimizers, weights, stdout) ==
  IF optimizers = <<>> THEN [exc |-> "none", weights |-> weights, stdout |-> stdout]
  ELSE
    LET r == OptimizerItems(decimal_places, Head(optimizers), Head(optimizers).items,
                            weights, stdout)
    IN  IF r.exc # "none" THEN r
        ELSE OptimizerWeights(decimal_places, Tail(optimizers), r.weights, r.stdout)

\* HDF5Converter.h5_merged_saved_model_to_json:
\* [exc, json, model_weights, optimizer_weights, reads], and what it printed.
h5_merged_saved_model_to_json(decimal_places, file) ==
  IF _check_version(file) # "none"
  THEN [exc |-> _check_version(file), json |-> NoJson, model_weights |-> <<>>,
        optimizer_weights |-> <<>>, reads |-> <<>>, stdout |-> <<>>]
  ELSE
    LET r == AsciiLayers(decimal_places, GroupIteration(file.layers), <<>>, <<>>)
        o == IF file.optimizer_weights.present
             THEN OptimizerWeights(decimal_places, file.optimizer_weights.optimizers,
                                   <<>>, <<>>)
             ELSE [exc |-> "none", weights |-> <<>>, stdout |-> <<>>]
    IN  IF r.exc # "none"
        THEN [exc |-> r.exc, json |-> NoJson, model_weights |-> <<>>,
              optimizer_weights |-> <<>>, reads |-> r.reads, stdout |-> <<>>]
        ELSE IF o.exc # "none"
        THEN [exc |-> o.exc, json |-> NoJson, model_weights |-> <<>>,
              optimizer_weights |-> <<>>, reads |-> r.reads, stdout |-> o.stdout]
        ELSE [exc |-> "none", json |-> ModelJson(file), model_weights |-> r.weights,
              optimizer_weights |-> o.weights, reads |-> r.reads, stdout |-> o.stdout]

\* HDF5Converter.h5_weights_to_json: [exc, json, weights, reads].
h5_weights_to_json(decimal_places, file) ==
  IF _check_version(file) # "none"
  THEN [exc |-> _check_version(file), json |-> NoJson, weights |-> <<>>, reads |-> <<>>]
  ELSE
    LET r == AsciiLayers(decimal_places, LayerNamesAttr(file.layers), <<>>, <<>>)
    IN  IF r.exc # "none"
        THEN [exc |-> r.exc, json |-> NoJson, weights |-> <<>>, reads |-> r.reads]
        ELSE [exc |-> "none",
              json |-> [NoJson EXCEPT !.keras_version = file.keras_version,
                                      !.backend = "tensorflow"],
              weights |-> r.weights, reads |-> r.reads]

(***************************************************************************)
(* The converter object.                                                   *)
(***************************************************************************)
NoConverter == [constructed |-> FALSE, decimal_places |-> 0]

\* The same constructor rejecting zero as well.
InitRejectsZero(decimal_places) ==
  IF decimal_places <= 0
  THEN [exc |-> "ValueError: decimal_places", self |-> NoConverter]
  ELSE [exc |-> "none", self |-> [constructed |-> TRUE, decimal_places |-> decimal_places]]

\* HDF5Converter.__init__: [exc, self].
HDF5Converter(decimal_places) ==
  IF decimal_places < 0
  THEN [exc |-> "ValueError: decimal_places", self |-> NoConverter]
  ELSE [exc |-> "none", self |-> [constructed |-> TRUE, decimal_places |-> decimal_places]]

(***************************************************************************)
(* The output path.  kind is "absent", "file" (a regular file holding      *)
(* data) or "dir" (a directory holding files, a function from file name to *)
(* content).                                                               *)
(***************************************************************************)
FileName(base, g, sh, n) == [base |-> base, group |-> g, shard |-> sh, of |-> n]
JsonFile(filename) == FileName(filename, 0, 0, 0)
\* 'group%d-shard%dof%d'
ShardFile(g, sh, n) == FileName("group-shard", g, sh, n)
ManifestFile == JsonFile("weights_manifest.json")

JsonContent(json) == [type |-> "topology", json |-> json, manifest |-> <<>>, data |-> <<>>]
ManifestContent(m) == [type |-> "manifest", json |-> NoJson, manifest |-> m, data |-> <<>>]
ShardContent(d) == [type |-> "shard", json |-> NoJson, manifest |-> <<>>, data |-> d]

AbsentPath == [kind |-> "absent", data |-> "", files |-> <<>>]
RegularFile == [kind |-> "file", data |-> "foo", files |-> <<>>]
EmptyDir == [kind |-> "dir", data |-> "", files |-> <<>>]

\* The error of open(os.path.join(dir, name), 'w') when dir is not a directory.
NoSuchDirectory == "IOError: No such file or directory"
NotADirectory == "IOError: Not a directory"
OpenError(dir) == IF dir.kind = "absent" THEN NoSuchDirectory ELSE NotADirectory

\* open(path, 'wt') ... write(content) in the directory.
WriteFile(dir, name, content) == [dir EXCEPT !.files = (name :> content) @@ dir.files]

\* A topology argument: empty (None or {}) or a dict.
EmptyTopology == [empty |-> TRUE, json |-> NoJson]
Topology(json) == [empty |-> FALSE, json |-> json]

NoOp == [name |-> "none"]
NoRet == [exc |-> "none", val |-> <<>>]

(***************************************************************************)
(* write_weights.write_weights(weights, output_dir[, max_shard_bytes]), the *)
(* weight encoder.  The bytes of a group's tensors are concatenated in     *)
(* order and cut into shards of max_shard_bytes (one shard when no size is *)
(* given); the shard files of the groups are written in order, then the    *)
(* manifest.  A group without tensors is passed over.                      *)
(***************************************************************************)
Unbounded == [bounded |-> FALSE, bytes |-> 0]
ShardSize(n) == [bounded |-> TRUE, bytes |-> n]

\* The byte width of a dtype.
DtypeSize(dtype) ==
  CASE dtype = "float32" -> 4
    [] dtype = "int32" -> 4
    [] dtype = "float64" -> 8

RECURSIVE Concat(_)
Concat(seqs) == IF seqs = <<>> THEN <<>> ELSE Head(seqs) \o Concat(Tail(seqs))

\* The byte stream of a group.
GroupData(group) == Concat([i \in 1..Len(group) |-> group[i].data.bytes])

\* The same cut with a last shard that takes up to one byte more than the size.
RECURSIVE SplitLastLonger(_, _)
SplitLastLonger(stream, n) ==
  IF Len(stream) <= n + 1 THEN <<stream>>
  ELSE <<SubSeq(stream, 1, n)>> \o SplitLastLonger(SubSeq(stream, n + 1, Len(stream)), n)

\* A stream cut into pieces of n bytes, the last one holding what is left.
RECURSIVE Split(_, _)
Split(stream, n) ==
  IF Len(stream) <= n THEN <<stream>>
  ELSE <<SubSeq(stream, 1, n)>> \o Split(SubSeq(stream, n + 1, Len(stream)), n)

\* The shards of a group.
Shards(group, max_shard_bytes) ==
  IF max_shard_bytes.bounded
  THEN Split(GroupData(group), max_shard_bytes.bytes)
  ELSE <<GroupData(group)>>

\* The same names counting the shards of a group from 0.
ShardPathsFromZero(g, n) == [k \in 1..n |-> ShardFile(g, k - 1, n)]

\* The shard file names of group g, cut into n shards.
ShardPaths(g, n) == [k \in 1..n |-> ShardFile(g, k, n)]

\* The same entry listing the weights last to first.
ManifestEntryReversed(g, group, max_shard_bytes) ==
  [paths |-> ShardPaths(g, Len(Shards(group, max_shard_bytes))),
   weights |-> [i \in 1..Len(group) |->
                  [name |-> group[Len(group) + 1 - i].name,
                   shape |-> group[Len(group) + 1 - i].data.shape,
                   dtype |-> group[Len(group) + 1 - i].data.dtype]]]

\* The manifest entry of group g: its shard files and its weights.
ManifestEntry(g, group, max_shard_bytes) ==
  [paths |-> ShardPaths(g, Len(Shards(group, max_shard_bytes))),
   weights |-> [i \in 1..Len(group) |->
                  [name |-> group[i].name, shape |-> group[i].data.shape,
                   dtype |-> group[i].data.dtype]]]

\* The same list with an entry for a group without tensors as well.
RECURSIVE ManifestFromKeepEmpty(_, _, _)
ManifestFromKeepEmpty(weights, g, max_shard_bytes) ==
  IF g > Len(weights) THEN <<>>
  ELSE <<ManifestEntry(g, weights[g], max_shard_bytes)>>
       \o ManifestFromKeepEmpty(weights, g + 1, max_shard_bytes)

\* The entries of the groups from position g on.
RECURSIVE ManifestFrom(_, _, _)
ManifestFrom(weights, g, max_shard_bytes) ==
  IF g > Len(weights) THEN <<>>
  ELSE (IF weights[g] = <<>> THEN <<>>
        ELSE <<ManifestEntry(g, weights[g], max_shard_bytes)>>)
       \o ManifestFrom(weights, g + 1, max_shard_bytes)

\* The manifest: one entry per group with tensors, in the order of the groups.
Manifest(weights, max_shard_bytes) == ManifestFrom(weights, 1, max_shard_bytes)

\* The files of group g: each shard under its name.
GroupFiles(g, group, max_shard_bytes) ==
  LET shards == Shards(group, max_shard_bytes)
  IN  [k \in 1..Len(shards) |->
         [file |-> ShardPaths(g, Len(shards))[k], data |-> shards[k]]]

\* The shard files of the groups from position g on.
RECURSIVE ShardFilesFrom(_, _, _)
ShardFilesFrom(weights, g, max_shard_bytes) ==
  IF g > Len(weights) THEN <<>>
  ELSE (IF weights[g] = <<>> THEN <<>>
        ELSE GroupFiles(g, weights[g], max_shard_bytes))
       \o ShardFilesFrom(weights, g + 1, max_shard_bytes)

\* The shard files of a call in the order they are written.
ShardFiles(weights, max_shard_bytes) == ShardFilesFrom(weights, 1, max_shard_bytes)

\* The tensors handed to the encoder directly: a name and an array of a dtype,
\* a shape and product(shape) * DtypeSize(dtype) bytes.
Tensor(name, dtype, shape, bytes) ==
  [name |-> Text(name), data |-> [dtype |-> dtype, shape |-> shape, bytes |-> bytes]]

\* The bytes base + 1 .. base + n.
BytesFrom(base, n) == [i \in 1..n |-> base + i]

\* 'k' float32 [1], 'b' int32 [3], 'c' float32 [2, 2], 'd' float64 [1].
SampleTensors ==
  { Tensor(<<107>>, "float32", <<1>>, BytesFrom(0, 4)),
    Tensor(<<98>>, "int32", <<3>>, BytesFrom(10, 12)),
    Tensor(<<99>>, "float32", <<2, 2>>, BytesFrom(30, 16)),
    Tensor(<<100>>, "float64", <<1>>, BytesFrom(50, 8)) }

\* The groups of at most MaxTensors tensors.
TensorGroups == UNION { [1..n -> SampleTensors] : n \in 0..MaxTensors }

\* A second group: none, an empty one, or one of two groups.
SecondGroups ==
  { <<>>,
    <<Tensor(<<107>>, "float32", <<1>>, BytesFrom(0, 4))>>,
    <<Tensor(<<98>>, "int32", <<3>>, BytesFrom(10, 12)),
      Tensor(<<107>>, "float32", <<1>>, BytesFrom(0, 4))>> }

\* The group sequences handed to the encoder.
EncoderInputs ==
  { <<g>> : g \in TensorGroups }
  \cup { <<g, h>> : g \in TensorGroups, h \in SecondGroups }

\* The shard sizes handed to the encoder: none, or an integer.
ShardSizes == {Unbounded} \cup { ShardSize(n) : n \in (0 - 1)..MaxShardBytes }

(***************************************************************************)
(* Calls.                                                                  *)
(***************************************************************************)
Return(o, r) ==
  /\ op' = o
  /\ ret' = [exc |-> r.exc, val |-> r]
  /\ pc' = IF r.exc = "none" THEN "returned" ELSE "raised"

\* converter = HDF5Converter(decimal_places)
Construct(decimal_places) ==
  /\ pc = "idle"
  /\ ~converter.constructed
  /\ LET r == HDF5Converter(decimal_places)
     IN  /\ converter' = r.self
         /\ op' = [name |-> "__init__", decimal_places |-> decimal_places]
         /\ ret' = [exc |-> r.exc, val |-> r]
         /\ pc' = IF r.exc = "none" THEN "idle" ELSE "raised"
  /\ UNCHANGED <<bench, h5file, reads, fs, tmp>>

\* converter._normalize_weight_name(weight_name), on a byte string or on the
\* name an earlier call returned.
CallNormalize(weight_name, origin, again) ==
  /\ converter.constructed
  /\ Return([name |-> "_normalize_weight_name", weight_name |-> weight_name,
             origin |-> origin, again |-> again],
            _normalize_weight_name(weight_name))
  /\ UNCHANGED <<bench, h5file, converter, reads, fs, tmp>>

NormalizeName ==
  /\ pc = "idle"
  /\ \E s \in RawNames : CallNormalize(Bytes(s), Bytes(s), FALSE)

NormalizeAgain ==
  /\ pc = "returned"
  /\ op.name = "_normalize_weight_name"
  /\ ~op.again
  /\ CallNormalize(ret.val.name, op.origin, TRUE)

\* converter.convert_h5_group(layer, [name for name in layer.attrs['weight_names']])
CallConvertGroup ==
  /\ pc = "idle"
  /\ converter.constructed
  /\ \E i \in 1..Len(h5file.layers) :
       /\ Return([name |-> "convert_h5_group", layer |-> i],
                 convert_h5_group(h5file.layers[i], WeightNames(h5file.layers[i])))
       /\ reads' = <<h5file.layers[i].name>>
  /\ UNCHANGED <<bench, h5file, converter, fs, tmp>>

CallConvertGroupToAscii ==
  /\ pc = "idle"
  /\ converter.constructed
  /\ \E i \in 1..Len(h5file.layers) :
       /\ Return([name |-> "convert_h5_group_to_ascii", layer |-> i],
                 convert_h5_group_to_ascii(converter.decimal_places, h5file.layers[i],
                                           WeightNames(h5file.layers[i])))
       /\ reads' = <<h5file.layers[i].name>>
  /\ UNCHANGED <<bench, h5file, converter, fs, tmp>>

CallMergedToTfjs ==
  /\ pc = "idle"
  /\ converter.constructed
  /\ LET r == h5_merged_saved_model_to_tfjs_format(h5file)
     IN  /\ Return([name |-> "h5_merged_saved_model_to_tfjs_format"], r)
         /\ reads' = r.reads
  /\ UNCHANGED <<bench, h5file, converter, fs, tmp>>

CallWeightsToTfjs ==
  /\ pc = "idle"
  /\ converter.constructed
  /\ LET r == h5_weights_to_tfjs_format(h5file)
     IN  /\ Return([name |-> "h5_weights_to_tfjs_format"], r)
         /\ reads' = r.reads
  /\ UNCHANGED <<bench, h5file, converter, fs, tmp>>

CallMergedToJson ==
  /\ pc = "idle"
  /\ converter.constructed
  /\ LET r == h5_merged_saved_model_to_json(converter.decimal_places, h5file)
     IN  /\ Return([name |-> "h5_merged_saved_model_to_json"], r)
         /\ reads' = r.reads
  /\ UNCHANGED <<bench, h5file, converter, fs, tmp>>

CallWeightsToJson ==
  /\ pc = "idle"
  /\ converter.constructed
  /\ LET r == h5_weights_to_json(converter.decimal_places, h5file)
     IN  /\ Return([name |-> "h5_weights_to_json"], r)
         /\ reads' = r.reads
  /\ UNCHANGED <<bench, h5file, converter, fs, tmp>>

(***************************************************************************)
(* save_model and write_artifacts, one step per effect on the file system, *)
(* so that the states between two writes (where a write may fail, or the   *)
(* process die) are states of the model.                                   *)
(***************************************************************************)
Raise(exc) ==
  /\ pc' = "raised"
  /\ ret' = [exc |-> exc, val |-> <<>>]

\* save_model, lines 343-344: keras.models.save_model(model, temp_h5_path).
SaveTempH5 ==
  /\ pc = "idle"
  /\ ~tmp
  /\ tmp' = TRUE
  /\ op' = [name |-> "save_model", topology |-> EmptyTopology, weights |-> <<>>,
            topology_filename |-> "topology.json", next |-> 1, existed |-> fs.kind,
            max_shard_bytes |-> Unbounded]
  /\ pc' = "sm_convert"
  /\ UNCHANGED <<bench, h5file, converter, ret, reads, fs>>

\* The same step creating the directory before the conversion.
SaveModelConvertMakedirsFirst ==
  /\ pc = "sm_convert"
  /\ converter' = HDF5Converter(DefaultDecimalPlaces).self
  /\ fs' = IF fs.kind = "absent" THEN EmptyDir ELSE fs
  /\ LET r == h5_merged_saved_model_to_tfjs_format(h5file)
     IN  /\ reads' = r.reads
         /\ IF r.exc # "none"
            THEN Raise(r.exc) /\ UNCHANGED op
            ELSE /\ op' = [op EXCEPT !.topology = Topology(r.json), !.weights = r.groups]
                 /\ pc' = "sm_checkdir"
                 /\ UNCHANGED ret
  /\ UNCHANGED <<bench, h5file, tmp>>

\* save_model, lines 346-348: the converter and the conversion of the temp file.
SaveModelConvert ==
  /\ pc = "sm_convert"
  /\ converter' = HDF5Converter(DefaultDecimalPlaces).self
  /\ LET r == h5_merged_saved_model_to_tfjs_format(h5file)
     IN  /\ reads' = r.reads
         /\ IF r.exc # "none"
            THEN Raise(r.exc) /\ UNCHANGED op
            ELSE /\ op' = [op EXCEPT !.topology = Topology(r.json), !.weights = r.groups]
                 /\ pc' = "sm_checkdir"
                 /\ UNCHANGED ret
  /\ UNCHANGED <<bench, h5file, fs, tmp>>

\* The same step without os.makedirs.
SaveModelNoMakedirs ==
  /\ pc = "sm_checkdir"
  /\ IF fs.kind = "file"
     THEN Raise("ValueError: already exists as a file") /\ UNCHANGED fs
     ELSE /\ pc' = "wa_topology"
          /\ UNCHANGED <<fs, ret>>
  /\ UNCHANGED <<bench, h5file, converter, op, reads, tmp>>

\* The same step creating the directory whatever the path is.
SaveModelMakedirsAlways ==
  /\ pc = "sm_checkdir"
  /\ fs' = EmptyDir
  /\ pc' = "wa_topology"
  /\ UNCHANGED <<bench, h5file, converter, op, ret, reads, tmp>>

\* save_model, lines 349-352: the test of artifacts_dir and os.makedirs.
SaveModelCheckDir ==
  /\ pc = "sm_checkdir"
  /\ IF fs.kind = "file"
     THEN Raise("ValueError: already exists as a file") /\ UNCHANGED fs
     ELSE /\ fs' = IF fs.kind = "dir" THEN fs ELSE EmptyDir
          /\ pc' = "wa_topology"
          /\ UNCHANGED ret
  /\ UNCHANGED <<bench, h5file, converter, op, reads, tmp>>

\* converter.write_artifacts(topology, weights, output_dir, topology_filename),
\* called directly with the groups of the weights file.
CallWriteArtifacts ==
  /\ pc = "idle"
  /\ converter.constructed
  /\ h5_weights_to_tfjs_format(h5file).exc = "none"
  /\ \E t \in {EmptyTopology, Topology(ModelJson(h5file))},
        f \in {"topology.json", "model.json"} :
       op' = [name |-> "write_artifacts", topology |-> t,
              weights |-> h5_weights_to_tfjs_format(h5file).groups,
              topology_filename |-> f, next |-> 1, existed |-> fs.kind,
            max_shard_bytes |-> Unbounded]
  /\ pc' = "wa_topology"
  /\ UNCHANGED <<bench, h5file, converter, ret, reads, fs, tmp>>

\* write_weights.write_weights(weights, output_dir, max_shard_bytes), called
\* directly: the shard size is checked before any file is written.
CallWriteWeights ==
  /\ pc = "idle"
  /\ \E weights \in EncoderInputs, max_shard_bytes \in ShardSizes :
       /\ op' = [name |-> "write_weights", topology |-> EmptyTopology,
                 weights |-> weights, topology_filename |-> "", next |-> 1,
                 existed |-> fs.kind, max_shard_bytes |-> max_shard_bytes]
       /\ IF max_shard_bytes.bounded /\ max_shard_bytes.bytes <= 0
          THEN Raise("InvalidConfiguration")
          ELSE /\ pc' = "ww_shards"
               /\ UNCHANGED ret
  /\ UNCHANGED <<bench, h5file, converter, reads, fs, tmp>>

\* The same step writing the topology file whether or not topology is empty.
WriteTopologyAlways ==
  /\ pc = "wa_topology"
  /\ IF fs.kind # "dir"
     THEN Raise(OpenError(fs)) /\ UNCHANGED fs
     ELSE /\ fs' = WriteFile(fs, JsonFile(op.topology_filename),
                             JsonContent(op.topology.json))
          /\ pc' = "ww_shards"
          /\ UNCHANGED ret
  /\ UNCHANGED <<bench, h5file, converter, op, reads, tmp>>

\* write_artifacts, lines 318-321: the topology file.
WriteTopology ==
  /\ pc = "wa_topology"
  /\ IF op.topology.empty
     THEN /\ pc' = "ww_shards"
          /\ UNCHANGED <<fs, ret>>
     ELSE IF fs.kind # "dir"
     THEN Raise(OpenError(fs)) /\ UNCHANGED fs
     ELSE /\ fs' = WriteFile(fs, JsonFile(op.topology_filename),
                             JsonContent(op.topology.json))
          /\ pc' = "ww_shards"
          /\ UNCHANGED ret
  /\ UNCHANGED <<bench, h5file, converter, op, reads, tmp>>

\* write_weights: the next shard file.
WriteShard ==
  /\ pc = "ww_shards"
  /\ op.next <= Len(ShardFiles(op.weights, op.max_shard_bytes))
  /\ IF fs.kind # "dir"
     THEN Raise(OpenError(fs)) /\ UNCHANGED <<fs, op>>
     ELSE /\ LET shard == ShardFiles(op.weights, op.max_shard_bytes)[op.next]
             IN  fs' = WriteFile(fs, shard.file, ShardContent(shard.data))
          /\ op' = [op EXCEPT !.next = op.next + 1]
          /\ UNCHANGED <<pc, ret>>
  /\ UNCHANGED <<bench, h5file, converter, reads, tmp>>

\* write_weights: the manifest, after the last shard; the call returns.
WriteManifest ==
  /\ pc = "ww_shards"
  /\ op.next > Len(ShardFiles(op.weights, op.max_shard_bytes))
  /\ IF fs.kind # "dir"
     THEN Raise(OpenError(fs)) /\ UNCHANGED fs
     ELSE /\ fs' = WriteFile(fs, ManifestFile,
                             ManifestContent(Manifest(op.weights, op.max_shard_bytes)))
          /\ pc' = IF op.name = "save_model" THEN "sm_remove" ELSE "returned"
          /\ ret' = NoRet
  /\ UNCHANGED <<bench, h5file, converter, op, reads, tmp>>

\* The same failure with the temporary file removed on the way out.
IOFailsCleansUp ==
  /\ \/ pc = "sm_checkdir" /\ fs.kind = "absent"
     \/ pc = "wa_topology" /\ ~op.topology.empty
     \/ pc = "ww_shards"
  /\ Raise("IOError")
  /\ tmp' = FALSE
  /\ UNCHANGED <<bench, h5file, converter, op, reads, fs>>

\* A write of a file, or the creation of the directory, fails: IOError / OSError.
IOFails ==
  /\ \/ pc = "sm_checkdir" /\ fs.kind = "absent"
     \/ pc = "wa_topology" /\ ~op.topology.empty
     \/ pc = "ww_shards"
  /\ Raise("IOError")
  /\ UNCHANGED <<bench, h5file, converter, op, reads, fs, tmp>>

\* save_model, line 354: os.remove(temp_h5_path).
RemoveTemp ==
  /\ pc = "sm_remove"
  /\ tmp' = FALSE
  /\ pc' = "returned"
  /\ UNCHANGED <<bench, h5file, converter, op, ret, reads, fs>>

(***************************************************************************)
(* scripts/benchmarks.py: benchmark_and_serialize_model.  The clock is the *)
(* value time.time() returns; a fit() or predict() run takes between 0 and *)
(* MaxRunTime ticks.  bench records, next to the function's local          *)
(* variables, when the burn-in and the timed runs began and ended and how  *)
(* many of them ran.                                                       *)
(***************************************************************************)
_FIT_BURNIN_EPOCHS == 1
_PREDICT_BURNINS == 1
_PREDICT_RUNS == 20

NoRun == [runs |-> 0, begin |-> 0, end |-> 0]
NoTime == [num |-> 0, den |-> 0]
NoBench ==
  [clock |-> 0, loop |-> 0,
   train_t_begin |-> 0, train_t_end |-> 0, predict_t_begin |-> 0, predict_t_end |-> 0,
   train_time |-> NoTime, predict_time |-> NoTime,
   burnin_fit |-> NoRun, timed_fit |-> NoRun, burnin_predict |-> NoRun,
   timed_predict |-> NoRun]

\* A run of d ticks added to the record of its kind.
Ran(run, clock, d) ==
  [runs |-> run.runs + 1, begin |-> IF run.runs = 0 THEN clock ELSE run.begin,
   end |-> clock + d]

RECURSIVE Gcd(_, _)
Gcd(a, b) == IF b = 0 THEN a ELSE Gcd(b, a % b)

\* a / b under 'from __future__ import division': the quotient itself, held
\* as a fraction in lowest terms; json.dumps and json.loads keep a float's value.
Quotient(a, b) ==
  IF a = 0 THEN [num |-> 0, den |-> 1]
  ELSE [num |-> a \div Gcd(a, b), den |-> b \div Gcd(a, b)]

\* The same statements with the reading of train_t_begin moved before the
\* burn-in fit.
ProgramTimerBeforeBurnin ==
  << "bm_train_t_begin", "bm_fit_burnin", "bm_fit", "bm_train_t_end",
     "bm_predict_burnin", "bm_predict_t_begin", "bm_predict", "bm_predict_t_end",
     "bm_save", "bm_times", "bm_write" >>

\* The statements of the function, lines 77 to 112, in their order.
Program ==
  << "bm_fit_burnin", "bm_train_t_begin", "bm_fit", "bm_train_t_end",
     "bm_predict_burnin", "bm_predict_t_begin", "bm_predict", "bm_predict_t_end",
     "bm_save", "bm_times", "bm_write" >>

\* The statement after a statement; after the last one the function returns.
After(label) ==
  LET i == CHOOSE j \in 1..Len(Program) : Program[j] = label
  IN  IF i = Len(Program) THEN "returned" ELSE Program[i + 1]

BenchmarkName == "benchmark_and_serialize_model"
DataFile == JsonFile("data.json")
DataContent(d) == [type |-> "data", json |-> NoJson, manifest |-> <<>>, data |-> d]

\* Lines 71-74: the model is built and compiled, the data drawn.
CallBenchmark ==
  /\ pc = "idle"
  /\ \E train_epochs \in 0..MaxEpochs :
       op' = [name |-> BenchmarkName, train_epochs |-> train_epochs,
              existed |-> fs.kind]
  /\ bench' = NoBench
  /\ pc' = Program[1]
  /\ UNCHANGED <<h5file, converter, ret, reads, fs, tmp>>

\* Line 77: model.fit(..., epochs=_FIT_BURNIN_EPOCHS).
FitBurnin ==
  /\ pc = "bm_fit_burnin"
  /\ \E d \in 0..MaxRunTime :
       bench' = [bench EXCEPT !.clock = bench.clock + d,
                              !.burnin_fit = Ran(bench.burnin_fit, bench.clock, d)]
  /\ pc' = After(pc)
  /\ UNCHANGED <<h5file, converter, op, ret, reads, fs, tmp>>

\* Line 80: train_t_begin = time.time().
TrainBegin ==
  /\ pc = "bm_train_t_begin"
  /\ bench' = [bench EXCEPT !.train_t_begin = bench.clock]
  /\ pc' = After(pc)
  /\ UNCHANGED <<h5file, converter, op, ret, reads, fs, tmp>>

\* Line 81: model.fit(..., epochs=train_epochs).
Fit ==
  /\ pc = "bm_fit"
  /\ \E d \in 0..MaxRunTime :
       bench' = [bench EXCEPT !.clock = bench.clock + d,
                              !.timed_fit = Ran(bench.timed_fit, bench.clock, d)]
  /\ pc' = After(pc)
  /\ UNCHANGED <<h5file, converter, op, ret, reads, fs, tmp>>

\* Line 82: train_t_end = time.time().
TrainEnd ==
  /\ pc = "bm_train_t_end"
  /\ bench' = [bench EXCEPT !.train_t_end = bench.clock]
  /\ pc' = After(pc)
  /\ UNCHANGED <<h5file, converter, op, ret, reads, fs, tmp>>

\* Lines 85-86: for _ in range(_PREDICT_BURNINS): model.predict(xs).
PredictBurnin ==
  /\ pc = "bm_predict_burnin"
  /\ IF bench.loop < _PREDICT_BURNINS
     THEN /\ \E d \in 0..MaxRunTime :
               bench' = [bench EXCEPT
                           !.clock = bench.clock + d, !.loop = bench.loop + 1,
                           !.burnin_predict = Ran(bench.burnin_predict, bench.clock, d)]
          /\ UNCHANGED pc
     ELSE /\ bench' = [bench EXCEPT !.loop = 0]
          /\ pc' = After(pc)
  /\ UNCHANGED <<h5file, converter, op, ret, reads, fs, tmp>>

\* Line 88: predict_t_begin = time.time().
PredictBegin ==
  /\ pc = "bm_predict_t_begin"
  /\ bench' = [bench EXCEPT !.predict_t_begin = bench.clock]
  /\ pc' = After(pc)
  /\ UNCHANGED <<h5file, converter, op, ret, reads, fs, tmp>>

\* Lines 89-90: for _ in range(_PREDICT_RUNS): model.predict(xs).
Predict ==
  /\ pc = "bm_predict"
  /\ IF bench.loop < _PREDICT_RUNS
     THEN /\ \E d \in 0..MaxRunTime :
               bench' = [bench EXCEPT
                           !.clock = bench.clock + d, !.loop = bench.loop + 1,
                           !.timed_predict = Ran(bench.timed_predict, bench.clock, d)]
          /\ UNCHANGED pc
     ELSE /\ bench' = [bench EXCEPT !.loop = 0]
          /\ pc' = After(pc)
  /\ UNCHANGED <<h5file, converter, op, ret, reads, fs, tmp>>

\* Line 91: predict_t_end = time.time().
PredictEnd ==
  /\ pc = "bm_predict_t_end"
  /\ bench' = [bench EXCEPT !.predict_t_end = bench.clock]
  /\ pc' = After(pc)
  /\ UNCHANGED <<h5file, converter, op, ret, reads, fs, tmp>>

\* Line 94: tfjs.converters.save_keras_model(model, artifacts_dir), the
\* artifact writer of the tensorflowjs package: it refuses a regular file,
\* creates the directory when there is none and writes the model's files
\* (model.json stands for them).
SaveKerasModel ==
  /\ pc = "bm_save"
  /\ IF fs.kind = "file"
     THEN Raise("ValueError: already exists as a file") /\ UNCHANGED fs
     ELSE /\ fs' = WriteFile(IF fs.kind = "dir" THEN fs ELSE EmptyDir,
                             JsonFile("model.json"), JsonContent(ModelJson(h5file)))
          /\ pc' = After(pc)
          /\ UNCHANGED ret
  /\ UNCHANGED <<bench, h5file, converter, op, reads, tmp>>

\* Lines 97-98: train_time and predict_time.
ComputeTimes ==
  /\ pc = "bm_times"
  /\ IF op.train_epochs = 0
     THEN Raise("ZeroDivisionError") /\ UNCHANGED bench
     ELSE /\ bench' = [bench EXCEPT
                         !.train_time = Quotient(bench.train_t_end - bench.train_t_begin,
                                                 op.train_epochs),
                         !.predict_time = Quotient(bench.predict_t_end
                                                     - bench.predict_t_begin,
                                                   _PREDICT_RUNS)]
          /\ pc' = After(pc)
          /\ UNCHANGED ret
  /\ UNCHANGED <<h5file, converter, op, reads, fs, tmp>>

\* Lines 99-114: data.json is written and the two times are returned.
WriteDataJson ==
  /\ pc = "bm_write"
  /\ IF fs.kind # "dir"
     THEN Raise(OpenError(fs)) /\ UNCHANGED fs
     ELSE /\ fs' = WriteFile(fs, DataFile,
                    DataContent([name |-> "model_name", description |-> "description",
                                 optimizer |-> "optimizer", loss |-> "loss",
                                 input_shape |-> "input_shape",
                                 target_shape |-> "target_shape",
                                 batch_size |-> "batch_size",
                                 train_epochs |-> op.train_epochs,
                                 train_time |-> bench.train_time,
                                 predict_time |-> bench.predict_time]))
          /\ ret' = [exc |-> "none",
                     val |-> [train_time |-> bench.train_time,
                              predict_time |-> bench.predict_time]]
          /\ pc' = After(pc)
  /\ UNCHANGED <<bench, h5file, converter, op, reads, tmp>>

\* Saving the model or writing data.json fails: IOError.
BenchIOFails ==
  /\ pc \in {"bm_save", "bm_write"}
  /\ Raise("IOError")
  /\ UNCHANGED <<bench, h5file, converter, op, reads, fs, tmp>>

(***************************************************************************)
(* Specifications.                                                         *)
(***************************************************************************)
InitCommon ==
  /\ pc = "idle"
  /\ op = NoOp
  /\ ret = NoRet
  /\ reads = <<>>
  /\ tmp = FALSE
  /\ bench = NoBench

\* The constructor, save_model and write_artifacts on every container and every
\* kind of output path.
Init ==
  /\ InitCommon
  /\ h5file \in Containers
  /\ converter = NoConverter
  /\ fs \in {AbsentPath, RegularFile, EmptyDir}

Next ==
  \/ \E d \in (0 - MaxDecimalPlaces)..MaxDecimalPlaces : Construct(d)
  \/ SaveTempH5
  \/ SaveModelConvert
  \/ SaveModelCheckDir
  \/ CallWriteArtifacts
  \/ WriteTopology
  \/ WriteShard
  \/ WriteManifest
  \/ IOFails
  \/ RemoveTemp

Spec == Init /\ [][Next]_vars

\* The conversions on every container.
InitConvert ==
  /\ InitCommon
  /\ h5file \in Containers
  /\ converter = HDF5Converter(DefaultDecimalPlaces).self
  /\ fs = AbsentPath

NextConvert ==
  \/ CallConvertGroup
  \/ CallConvertGroupToAscii
  \/ CallMergedToTfjs
  \/ CallWeightsToTfjs
  \/ CallMergedToJson
  \/ CallWeightsToJson

SpecConvert == InitConvert /\ [][NextConvert]_vars

\* The four conversions on every version string of at most MaxVerLen characters.
InitVersion ==
  /\ InitCommon
  /\ h5file \in { Container(v, ls, FALSE, NoOptimizer) :
                    v \in Versions, ls \in SampleLayerLists }
  /\ converter = HDF5Converter(DefaultDecimalPlaces).self
  /\ fs = AbsentPath

NextVersion ==
  \/ CallMergedToTfjs
  \/ CallWeightsToTfjs
  \/ CallMergedToJson
  \/ CallWeightsToJson

SpecVersion == InitVersion /\ [][NextVersion]_vars

\* _normalize_weight_name on every byte string of at most MaxNameLen bytes.
InitNames ==
  /\ InitCommon
  /\ h5file = Container(<<"2">>, <<>>, FALSE, NoOptimizer)
  /\ converter = HDF5Converter(DefaultDecimalPlaces).self
  /\ fs = AbsentPath

NextNames ==
  \/ NormalizeName
  \/ NormalizeAgain

SpecNames == InitNames /\ [][NextNames]_vars

\* The weight encoder, called directly on every input and shard size, and
\* through write_artifacts.
InitEncode ==
  /\ InitCommon
  /\ h5file = Container(<<"2", ".", "1">>,
                        <<[name |-> <<98>>, weight_names |-> <<KernelName, BiasName>>],
                          [name |-> <<97>>, weight_names |-> <<KernelName>>]>>,
                        FALSE, NoOptimizer)
  /\ converter = HDF5Converter(DefaultDecimalPlaces).self
  /\ fs \in {AbsentPath, RegularFile, EmptyDir}

NextEncode ==
  \/ CallWriteWeights
  \/ CallWriteArtifacts
  \/ WriteTopology
  \/ WriteShard
  \/ WriteManifest
  \/ IOFails

SpecEncode == InitEncode /\ [][NextEncode]_vars

\* benchmark_and_serialize_model on every kind of output path.
InitBench ==
  /\ InitCommon
  /\ h5file = Container(<<"2", ".", "1">>,
                        <<[name |-> <<98>>, weight_names |-> <<KernelName, BiasName>>]>>,
                        TRUE, NoOptimizer)
  /\ converter = NoConverter
  /\ fs \in {AbsentPath, RegularFile, EmptyDir}

NextBench ==
  \/ CallBenchmark
  \/ FitBurnin
  \/ TrainBegin
  \/ Fit
  \/ TrainEnd
  \/ PredictBurnin
  \/ PredictBegin
  \/ Predict
  \/ PredictEnd
  \/ SaveKerasModel
  \/ ComputeTimes
  \/ WriteDataJson
  \/ BenchIOFails

SpecBench == InitBench /\ [][NextBench]_vars

(***************************************************************************)
(* The claims.                                                             *)
(***************************************************************************)
Writing == op.name \in {"save_model", "write_artifacts"}
FilesOf(dir) == DOMAIN dir.files
ShardFilesOf(dir) == { f \in FilesOf(dir) : f.base = "group-shard" }
AllShardsWritten ==
  \A g \in 1..Len(op.weights) : ShardFile(g, 1, 1) \in FilesOf(fs)
VersionError == "ValueError: Keras version"
PathConflict == "ValueError: already exists as a file"

\* C1: in every state of a write (write_artifacts, save_model), a crash
\* included, the output directory holds the topology JSON or the manifest JSON
\* only when every shard file of the call is there: the JSON is written after
\* the shards.
C1_JsonAfterShards ==
  (Writing /\ (JsonFile(op.topology_filename) \in FilesOf(fs)
               \/ ManifestFile \in FilesOf(fs)))
    => AllShardsWritten

\* C2 as stated: save_model on a path that is a regular file ends with the
\* path-conflict error, whatever the model, and leaves the file as it was.
C2_AlwaysPathConflict ==
  (op.name = "save_model" /\ fs.kind = "file" /\ pc \in {"raised", "returned"})
    => (pc = "raised" /\ ret.exc = PathConflict /\ fs = RegularFile)

\* C2, amended: save_model on a path that is a regular file fails; with the
\* path-conflict error when the conversion of the temporary file succeeded, and
\* with the conversion's own error otherwise.  No step of the call changes the
\* regular file or creates a file in its place.
C2_PathConflict ==
  /\ [][fs.kind = "file" => fs' = fs]_vars
  /\ []((op.name = "save_model" /\ fs.kind = "file" /\ pc \in {"raised", "returned"})
          => /\ pc = "raised"
             /\ IF h5_merged_saved_model_to_tfjs_format(h5file).exc = "none"
                THEN ret.exc = PathConflict
                ELSE ret.exc = h5_merged_saved_model_to_tfjs_format(h5file).exc)

C2_Witness ==
  /\ op.name = "save_model"
  /\ fs = RegularFile
  /\ pc = "raised"
  /\ ret.exc = PathConflict
  /\ h5file.layers # <<>>

\* C3 as stated: a save_model call that fails the version check has written no
\* file at all.
C3_NoFileAtAll ==
  (op.name = "save_model" /\ pc = "raised" /\ ret.exc = VersionError)
    => (~tmp /\ FilesOf(fs) = {})

\* C3, amended: in a save_model call the decimal-places and version checks
\* complete before anything is written at the output path: up to the end of the
\* checks no step changes the output path, and a call that fails the version
\* check has written the temporary HDF5 file only, which is still there.
C3_EagerValidation ==
  /\ [][(op'.name = "save_model" /\ pc' \in {"sm_convert", "sm_checkdir"}) => fs' = fs]_vars
  /\ [][(op'.name = "save_model" /\ pc' = "raised" /\ ret'.exc = VersionError)
          => (fs' = fs /\ pc = "sm_convert" /\ tmp')]_vars
  /\ []((op.name = "save_model" /\ pc = "raised" /\ ret.exc = VersionError)
          => (tmp /\ FilesOf(fs) = {} /\ fs \in {AbsentPath, RegularFile, EmptyDir}))

C3_Witness ==
  /\ op.name = "save_model"
  /\ pc = "raised"
  /\ ret.exc = VersionError
  /\ tmp
  /\ fs = AbsentPath

Conversions ==
  {"h5_merged_saved_model_to_tfjs_format", "h5_weights_to_tfjs_format",
   "h5_merged_saved_model_to_json", "h5_weights_to_json"}

\* The version's text before its first '.' is '2'.
IsMajor2(v) == Len(v) >= 1 /\ v[1] = "2" /\ (Len(v) = 1 \/ v[2] = ".")

\* C4: each of the four conversions fails with the unsupported-version error
\* whenever the major component of keras_version is not '2', before it reads a
\* layer and without a result; for major version '2' the check never fails.
C4_UnsupportedVersion ==
  (op.name \in Conversions /\ pc \in {"raised", "returned"})
    => IF IsMajor2(h5file.keras_version)
       THEN ret.exc # VersionError
       ELSE /\ pc = "raised"
            /\ ret.exc = VersionError
            /\ reads = <<>>
            /\ ret.val.json = NoJson

C4_Witness ==
  /\ op.name = "h5_merged_saved_model_to_tfjs_format"
  /\ h5file.keras_version = <<"2", "1">>
  /\ Len(h5file.layers) = 2
  /\ pc = "raised"
  /\ ret.exc = VersionError

\* C5: constructing the converter with a negative decimal_places fails with
\* the ValueError, touches no file and leaves no converter object; with
\* decimal_places >= 0, zero included, it succeeds and stores that value.
C5_NegativeDecimalPlaces ==
  [][op'.name = "__init__"
       => /\ fs' = fs
          /\ tmp' = tmp
          /\ IF op'.decimal_places < 0
             THEN /\ pc' = "raised"
                  /\ ret'.exc = "ValueError: decimal_places"
                  /\ ~converter'.constructed
             ELSE /\ pc' # "raised"
                  /\ ret'.exc = "none"
                  /\ converter'.constructed
                  /\ converter'.decimal_places = op'.decimal_places]_vars

C5_Witness ==
  /\ op.name = "__init__"
  /\ op.decimal_places < 0
  /\ pc = "raised"
  /\ ret.exc = "ValueError: decimal_places"
  /\ ~converter.constructed

\* The text of a UTF-8 byte string, without one trailing ':0'.
ExpectedName(raw) ==
  LET text == Utf8Decode(raw)
  IN  Text(IF EndsWithSlot(text) THEN SubSeq(text, 1, Len(text) - 2) ELSE text)

\* C6 as stated, on the ascii names alone: normalizing the result of a
\* normalization returns it unchanged, for every name.
C6_IdempotentForAll ==
  (op.name = "_normalize_weight_name" /\ op.again /\ IsAscii(op.origin.s))
    => (pc = "returned" /\ ret.val.name = op.weight_name)

\* C6, amended: normalization removes one trailing ':0' and changes nothing
\* else ('k:0' gives 'k', a name without the suffix comes back unchanged), and
\* normalizing the result again returns it unchanged for every ascii name that
\* does not end in ':0:0'.
C6_Idempotent ==
  /\ (op.name = "_normalize_weight_name" /\ ~op.again /\ Utf8Valid(op.weight_name.s))
       => (pc = "returned" /\ ret.val.name = ExpectedName(op.weight_name.s))
  /\ (op.name = "_normalize_weight_name" /\ op.again /\ IsAscii(op.origin.s)
        /\ ~EndsWithSlot(ExpectedName(op.origin.s).s))
       => (pc = "returned" /\ ret.val.name = op.weight_name)

C6_Witness ==
  /\ op.name = "_normalize_weight_name"
  /\ op.again
  /\ op.origin = Bytes(<<107, 58, 48>>)
  /\ op.weight_name = Text(<<107>>)
  /\ pc = "returned"
  /\ ret.val.name = Text(<<107>>)

GroupCalls == {"convert_h5_group", "convert_h5_group_to_ascii"}

\* C7: the entries of a group produced by convert_h5_group or
\* convert_h5_group_to_ascii are those of the layer's weight_names, position by
\* position: as many, in the same order, each with its normalized name and with
\* the data stored under its own name.
C7_OrderPreserved ==
  (op.name \in GroupCalls /\ pc = "returned" /\ ~ret.val.isNone)
    => LET layer == h5file.layers[op.layer]
           out == ret.val.val
       IN  /\ Len(out) = Len(layer.weight_names)
           /\ \A i \in 1..Len(out) :
                /\ out[i].name = ExpectedName(layer.weight_names[i])
                /\ out[i].data = Dataset(layer, layer.weight_names[i])

C7_Witness ==
  /\ op.name = "convert_h5_group"
  /\ pc = "returned"
  /\ h5file.layers[op.layer].weight_names = <<BiasName, KernelName>>
  /\ Len(ret.val.val) = 2
  /\ ret.val.val[2].name = Text(<<107>>)

\* The place of a layer in the model's declaration order.
DeclIndex(name) == CHOOSE i \in 1..Len(h5file.layers) : h5file.layers[i].name = name

\* C8: the groups returned by h5_weights_to_tfjs_format and by
\* h5_merged_saved_model_to_tfjs_format are in the layer declaration order: of
\* two groups, the one of the layer declared earlier comes first.
C8_DeclarationOrder ==
  (op.name \in {"h5_weights_to_tfjs_format", "h5_merged_saved_model_to_tfjs_format"}
     /\ pc = "returned")
    => \A i, j \in 1..Len(ret.val.groups) :
         i < j => DeclIndex(ret.val.groups[i][1].data.layer)
                    < DeclIndex(ret.val.groups[j][1].data.layer)

\* The layers of the container that have a weight name.
LayersWithWeights == { i \in 1..Len(h5file.layers) : h5file.layers[i].weight_names # <<>> }

\* C9: a layer without weights contributes nothing: the groups the tfjs-format
\* conversions return are as many as the layers with a weight name and none is
\* empty, and the write produces as many manifest entries and as many shard
\* files.
C9_EmptyGroupSkip ==
  /\ (Writing /\ pc \in {"sm_checkdir", "wa_topology", "ww_shards", "sm_remove", "returned"})
       => /\ Len(op.weights) = Cardinality(LayersWithWeights)
          /\ \A g \in 1..Len(op.weights) : Len(op.weights[g]) > 0
  /\ (Writing /\ pc \in {"sm_remove", "returned"})
       => /\ Len(fs.files[ManifestFile].manifest) = Cardinality(LayersWithWeights)
          /\ Cardinality(ShardFilesOf(fs)) = Cardinality(LayersWithWeights)

C9_Witness ==
  /\ op.name = "save_model"
  /\ pc = "returned"
  /\ Len(h5file.layers) = 2
  /\ h5file.layers[1].weight_names = <<>>
  /\ Len(op.weights) = 1
  /\ Cardinality(ShardFilesOf(fs)) = 1

\* C10: write_artifacts with an empty topology writes no file under
\* topology_filename, and still runs the weight encoder, which writes the
\* manifest; with a topology it writes the topology JSON under
\* topology_filename in output_dir.
C10_EmptyTopology ==
  /\ (Writing /\ op.topology.empty)
       => JsonFile(op.topology_filename) \notin FilesOf(fs)
  /\ (Writing /\ ~op.topology.empty /\ pc \in {"ww_shards", "sm_remove", "returned"})
       => /\ JsonFile(op.topology_filename) \in FilesOf(fs)
          /\ fs.files[JsonFile(op.topology_filename)] = JsonContent(op.topology.json)
  /\ (Writing /\ pc = "returned")
       => /\ ManifestFile \in FilesOf(fs)
          /\ fs.files[ManifestFile].type = "manifest"

C10_Witness ==
  /\ op.name = "write_artifacts"
  /\ op.topology.empty
  /\ pc = "returned"
  /\ Len(op.weights) = 2
  /\ ManifestFile \in FilesOf(fs)
  /\ Cardinality(FilesOf(fs)) = 3

C12_CombinedModelJson ==
  (op.name = "save_model" /\ pc = "returned")
    => /\ JsonFile("model.json") \in FilesOf(fs)
       /\ LET model == fs.files[JsonFile("model.json")]
          IN  /\ model.json = ModelJson(h5file)
              /\ Len(model.manifest) = Len(op.weights)
              /\ \A g \in 1..Len(model.manifest) : model.manifest[g].paths # <<>>
       /\ AllShardsWritten

\* A call of the encoder, direct or through write_artifacts, has returned.
Encoded == op.name \in {"write_weights", "write_artifacts"} /\ pc = "returned"

\* The positions of the groups of the call that hold a tensor.
NonEmptyGroups == { g \in 1..Len(op.weights) : op.weights[g] # <<>> }

\* The shard files of group g in the output directory, and their bytes read
\* in the order of the names: shard 1, 2, ... of the number of files found.
GroupShardFiles(g) == { f \in ShardFilesOf(fs) : f.group = g }
ReadShards(g) ==
  LET n == Cardinality(GroupShardFiles(g))
  IN  Concat([k \in 1..n |-> fs.files[ShardFile(g, k, n)].data])

\* The bytes of the tensors of a group, one after the other.
RECURSIVE TensorBytes(_)
TensorBytes(group) ==
  IF group = <<>> THEN <<>> ELSE Head(group).data.bytes \o TensorBytes(Tail(group))

\* C13: after a write without a shard size the shard files are exactly
\* group<g>-shard1of1, g the position (from 1) of each group that holds a
\* tensor; with any shard size the files of group g are group<g>-shard<k>of<n>
\* for k = 1..n and one n >= 1, and read in the order of their names they give
\* the bytes of the group in order.
C13_ShardNames ==
  Encoded
    => /\ ~op.max_shard_bytes.bounded
            => ShardFilesOf(fs) = { ShardFile(g, 1, 1) : g \in NonEmptyGroups }
       /\ \A f \in ShardFilesOf(fs) : f.group \in NonEmptyGroups
       /\ \A g \in NonEmptyGroups :
            LET n == Cardinality(GroupShardFiles(g))
            IN  /\ n >= 1
                /\ GroupShardFiles(g) = { ShardFile(g, k, n) : k \in 1..n }
                /\ ReadShards(g) = TensorBytes(op.weights[g])

C13_Witness ==
  /\ op.name = "write_weights"
  /\ pc = "returned"
  /\ ~op.max_shard_bytes.bounded
  /\ Len(op.weights) = 2
  /\ Len(op.weights[1]) = 2
  /\ ShardFilesOf(fs) = {ShardFile(1, 1, 1), ShardFile(2, 1, 1)}

\* product(shape) * dtype_size, and its sum over a group.
RECURSIVE Product(_)
Product(shape) == IF shape = <<>> THEN 1 ELSE Head(shape) * Product(Tail(shape))
TensorSize(t) == Product(t.data.shape) * DtypeSize(t.data.dtype)
RECURSIVE GroupSize(_)
GroupSize(group) ==
  IF group = <<>> THEN 0 ELSE TensorSize(Head(group)) + GroupSize(Tail(group))

\* C14: with a positive max_shard_bytes a group of S bytes is written as
\* ceil(S / max_shard_bytes) shards, each but the last of exactly
\* max_shard_bytes bytes and the last holding the rest: 3 equal shards for
\* S = 3 * max_shard_bytes, 4 shards with a last one of 1 byte for one byte more.
C14_ShardSplitting ==
  (Encoded /\ op.max_shard_bytes.bounded)
    => \A g \in NonEmptyGroups :
         LET max == op.max_shard_bytes.bytes
             S == GroupSize(op.weights[g])
             n == (S + max - 1) \div max
         IN  /\ GroupShardFiles(g) = { ShardFile(g, k, n) : k \in 1..n }
             /\ \A k \in 1..(n - 1) : Len(fs.files[ShardFile(g, k, n)].data) = max
             /\ Len(fs.files[ShardFile(g, n, n)].data) = S - (n - 1) * max
             /\ S = 3 * max => n = 3
             /\ S = 3 * max + 1 => (n = 4 /\ Len(fs.files[ShardFile(g, 4, 4)].data) = 1)

C14_Witness ==
  /\ op.name = "write_weights"
  /\ pc = "returned"
  /\ op.max_shard_bytes = ShardSize(5)
  /\ GroupSize(op.weights[1]) = 16
  /\ ShardFile(1, 4, 4) \in FilesOf(fs)
  /\ Len(fs.files[ShardFile(1, 4, 4)].data) = 1
  /\ Len(fs.files[ShardFile(1, 3, 4)].data) = 5

\* Reading a manifest entry back: the bytes of its shard files in the order
\* of its paths, and the slice of weight i at the sum of the sizes before it.
EntryStream(e) == Concat([k \in 1..Len(e.paths) |-> fs.files[e.paths[k]].data])
WeightSize(w) == Product(w.shape) * DtypeSize(w.dtype)
RECURSIVE Offset(_, _)
Offset(weights, i) ==
  IF i = 1 THEN 0 ELSE Offset(weights, i - 1) + WeightSize(weights[i - 1])
Slice(e, i) ==
  SubSeq(EntryStream(e), Offset(e.weights, i) + 1,
         Offset(e.weights, i) + WeightSize(e.weights[i]))

\* The groups of the call that hold a tensor, in order.
GroupsWritten == SelectSeq(op.weights, LAMBDA group : group # <<>>)

\* C15: after a write, each manifest entry read back gives the tensors of
\* its group: as many weights under the same names, the slice of every weight
\* equal to the tensor's bytes, and the sizes of the entry's weights adding up
\* to the bytes of its shard files.
C15_RoundTrip ==
  Encoded
    => LET manifest == fs.files[ManifestFile].manifest
       IN  /\ Len(manifest) = Len(GroupsWritten)
           /\ \A j \in 1..Len(manifest) :
                LET e == manifest[j]
                    group == GroupsWritten[j]
                IN  /\ Len(e.weights) = Len(group)
                    /\ \A i \in 1..Len(group) :
                         /\ e.weights[i].name = group[i].name
                         /\ Slice(e, i) = group[i].data.bytes
                    /\ Offset(e.weights, Len(e.weights) + 1) = Len(EntryStream(e))

C15_Witness ==
  /\ op.name = "write_weights"
  /\ pc = "returned"
  /\ op.max_shard_bytes = ShardSize(5)
  /\ Len(op.weights) = 2
  /\ op.weights[1] = <<>>
  /\ Len(fs.files[ManifestFile].manifest) = 1
  /\ Len(fs.files[ManifestFile].manifest[1].paths) = 4
  /\ Len(fs.files[ManifestFile].manifest[1].weights) = 2
  /\ fs.files[ManifestFile].manifest[1].weights[1].dtype = "int32"

\* The paths the manifest in the output directory refers to.
ManifestPaths ==
  UNION { { e.paths[k] : k \in 1..Len(e.paths) } :
            e \in { fs.files[ManifestFile].manifest[j] :
                      j \in 1..Len(fs.files[ManifestFile].manifest) } }

\* C16: after a successful write into a directory that held no file, the
\* shard files of the directory are the paths of the manifest: every path
\* referred to is a shard file there and every shard file is referred to.
C16_NoOrphanShards ==
  Encoded
    => /\ ManifestFile \in FilesOf(fs)
       /\ ManifestPaths = ShardFilesOf(fs)
       /\ \A f \in ManifestPaths : fs.files[f].type = "shard"

C16_Witness ==
  /\ op.name = "write_artifacts"
  /\ pc = "returned"
  /\ ~op.topology.empty
  /\ ManifestPaths = {ShardFile(1, 1, 1), ShardFile(2, 1, 1)}
  /\ Cardinality(FilesOf(fs)) = 4

\* C17: no call detects an abnormal condition and then returns a result: a
\* h5_merged_saved_model_to_json call that returns has met no optimizer item
\* it could not handle, and has reported none.
C17_NoSwallowedError ==
  (op.name = "h5_merged_saved_model_to_json" /\ pc = "returned")
    => /\ ret.val.stdout = <<>>
       /\ \A i \in 1..Len(h5file.optimizer_weights.optimizers) :
            \A k \in 1..Len(h5file.optimizer_weights.optimizers[i].items) :
              h5file.optimizer_weights.optimizers[i].items[k].kind \in {"Dataset", "Group"}

\* C18: when benchmark_and_serialize_model returns, the burn-in fit had ended
\* when train_t_begin was read and the burn-in predict runs when
\* predict_t_begin was read, the timed runs (one fit, _PREDICT_RUNS predict
\* runs) lie inside their intervals, and the two times returned are the timed
\* durations divided by train_epochs and by _PREDICT_RUNS and are the values
\* of data.json; data.json is in the directory only after the model's files.
C18_BurninExcluded ==
  /\ (op.name = BenchmarkName /\ pc = "returned")
       => /\ bench.burnin_fit.runs = _FIT_BURNIN_EPOCHS
          /\ bench.burnin_fit.end <= bench.train_t_begin
          /\ bench.timed_fit.runs = 1
          /\ bench.train_t_begin <= bench.timed_fit.begin
          /\ bench.timed_fit.end <= bench.train_t_end
          /\ bench.burnin_predict.runs = _PREDICT_BURNINS
          /\ bench.burnin_predict.end <= bench.predict_t_begin
          /\ bench.timed_predict.runs = _PREDICT_RUNS
          /\ bench.predict_t_begin <= bench.timed_predict.begin
          /\ bench.timed_predict.end <= bench.predict_t_end
          /\ ret.val.train_time.num * op.train_epochs
               = (bench.train_t_end - bench.train_t_begin) * ret.val.train_time.den
          /\ ret.val.predict_time.num * _PREDICT_RUNS
               = (bench.predict_t_end - bench.predict_t_begin) * ret.val.predict_time.den
          /\ fs.files[DataFile].data.train_time = ret.val.train_time
          /\ fs.files[DataFile].data.predict_time = ret.val.predict_time
  /\ (op.name = BenchmarkName /\ DataFile \in FilesOf(fs))
       => (pc = "returned" /\ JsonFile("model.json") \in FilesOf(fs))

C18_Witness ==
  /\ op.name = BenchmarkName
  /\ pc = "returned"
  /\ op.train_epochs = 2
  /\ bench.burnin_fit.end = 1
  /\ bench.train_t_begin = 1
  /\ bench.train_t_end = 2
  /\ ret.val.train_time = [num |-> 1, den |-> 2]
  /\ bench.predict_t_end - bench.predict_t_begin = 10
  /\ fs.files[DataFile].data.predict_time = [num |-> 1, den |-> 2]

\* C19: each name of a layer reaches the output group normalized once and
\* decoded once: convert_h5_group and convert_h5_group_to_ascii return, for
\* every weight name, the text of the raw name without one trailing ':0'.
C19_NormalizedOnce ==
  (op.name \in GroupCalls /\ pc \in {"returned", "raised"}
     /\ h5file.layers[op.layer].weight_names # <<>>)
    => /\ pc = "returned"
       /\ \A i \in 1..Len(h5file.layers[op.layer].weight_names) :
            ret.val.val[i].name = ExpectedName(h5file.layers[op.layer].weight_names[i])

\* C20: save_model removes its temporary HDF5 file when it returns and only
\* then: the file is gone after a successful return, it is still there when
\* the call has raised (unsupported version, path conflict, a failed
\* os.makedirs or write), and os.remove is the last step of the call.
C20_TempFileRemoved ==
  /\ [][(tmp /\ ~tmp') => (pc = "sm_remove" /\ pc' = "returned")]_vars
  /\ []((op.name = "save_model" /\ pc = "returned") => ~tmp)
  /\ []((op.name = "save_model" /\ pc \notin {"returned", "idle"}) => tmp)

C20_Witness ==
  /\ op.name = "save_model"
  /\ pc = "raised"
  /\ ret.exc = "IOError"
  /\ tmp
  /\ ShardFile(1, 1, 1) \in FilesOf(fs)
  /\ ManifestFile \notin FilesOf(fs)

\* The weights mapping a JSON conversion returned.
JsonWeights ==
  IF op.name = "h5_weights_to_json" THEN ret.val.weights ELSE ret.val.model_weights

\* The key of layer i: its name as text.
LayerKey(i) == Text(Utf8Decode(h5file.layers[i].name))

\* C21: the weights mapping of h5_weights_to_json and of
\* h5_merged_saved_model_to_json has exactly one key per layer of the file;
\* the value of a layer without tensors is None, that of a layer with tensors
\* one entry per tensor.  The tfjs-format conversions return one group per
\* layer with tensors and none for the others.
C21_NullForEmptyLayer ==
  /\ (pc = "returned" /\ op.name \in {"h5_weights_to_json", "h5_merged_saved_model_to_json"})
       => /\ DOMAIN JsonWeights = { LayerKey(i) : i \in 1..Len(h5file.layers) }
          /\ \A i \in 1..Len(h5file.layers) :
               /\ JsonWeights[LayerKey(i)].isNone = (h5file.layers[i].weight_names = <<>>)
               /\ Len(JsonWeights[LayerKey(i)].val) = Len(h5file.layers[i].weight_names)
  /\ (pc = "returned"
        /\ op.name \in {"h5_weights_to_tfjs_format", "h5_merged_saved_model_to_tfjs_format"})
       => /\ Len(ret.val.groups) = Cardinality(LayersWithWeights)
          /\ \A g \in 1..Len(ret.val.groups) : ret.val.groups[g] # <<>>

\* Both JSON conversions meet a file of two layers, the first without tensors.
C21_Witness ==
  /\ pc = "returned"
  /\ op.name = "h5_merged_saved_model_to_json"
  /\ Len(h5file.layers) = 2
  /\ h5file.layers[1].weight_names = <<>>
  /\ h5file.layers[2].weight_names # <<>>
  /\ Cardinality(DOMAIN ret.val.model_weights) = 2
  /\ ret.val.model_weights[LayerKey(1)].isNone
  /\ ~ret.val.model_weights[LayerKey(2)].isNone

\* The optimizers of the file, and the key of optimizer i: its name as text.
Optimizers == h5file.optimizer_weights.optimizers
OptimizerKey(i) == Text(Utf8Decode(Optimizers[i].name))

\* The items of optimizer i that are a dataset or a sub-group, by position,
\* and the last of them.
Recognised(i) ==
  { k \in 1..Len(Optimizers[i].items) : Optimizers[i].items[k].kind \in {"Dataset", "Group"} }
LastRecognised(i) ==
  Optimizers[i].items[CHOOSE k \in Recognised(i) : \A l \in Recognised(i) : l <= k]

\* C22: when h5_merged_saved_model_to_json returns, the optimizer_weights
\* entry of an optimizer is the conversion of the last dataset or sub-group
\* among its items and of nothing else: one element for a dataset, the
\* sub-group's members (None when it has none) for a sub-group; an optimizer
\* without a dataset or sub-group has no entry.
C22_LastItemOnly ==
  (pc = "returned" /\ op.name = "h5_merged_saved_model_to_json")
    => /\ DOMAIN ret.val.optimizer_weights
            = { OptimizerKey(i) : i \in { j \in 1..Len(Optimizers) : Recognised(j) # {} } }
       /\ \A i \in 1..Len(Optimizers) :
            Recognised(i) # {}
              => LET e == ret.val.optimizer_weights[OptimizerKey(i)]
                     last == LastRecognised(i)
                 IN  IF last.kind = "Dataset"
                     THEN /\ ~e.isNone
                          /\ Len(e.val) = 1
                          /\ e.val[1].data.layer = Optimizers[i].name
                          /\ e.val[1].data.key = last.key
                     ELSE /\ e.isNone = (last.names = <<>>)
                          /\ Len(e.val) = Len(last.names)
                          /\ \A j \in 1..Len(e.val) :
                               /\ e.val[j].data.layer = last.key
                               /\ e.val[j].data.key = last.names[j]

\* An optimizer with a sub-group and then a dataset keeps the dataset alone,
\* and the optimizer next to it, without either, has no entry.
C22_Witness ==
  /\ pc = "returned"
  /\ op.name = "h5_merged_saved_model_to_json"
  /\ Len(Optimizers) = 2
  /\ Cardinality(Recognised(1)) = 2
  /\ LastRecognised(1).kind = "Dataset"
  /\ Len(ret.val.optimizer_weights[OptimizerKey(1)].val) = 1
  /\ Recognised(2) = {}
  /\ OptimizerKey(2) \notin DOMAIN ret.val.optimizer_weights

====
